---- MODULE Spec2Model ----
(***************************************************************************)
(* Model of the Abacaxi Friends attendance application (src/app.py).      *)
(*                                                                         *)
(* The Record Store is the Google Sheet (range A:D), the Blob Store is     *)
(* the Google Drive folder.  Every user interaction of a browser session   *)
(* runs the script once: main() builds an AttendanceSystem, whose          *)
(* constructor calls the memoized load_data, and then run() executes the   *)
(* handler of the chosen page.  Script runs of different sessions are      *)
(* separate threads that interleave at the remote calls, so a run is       *)
(* split into steps at each remote call.                                   *)
(*                                                                         *)
(* Strings are tuples of one-character strings, so that strip(), lower(),  *)
(* re.sub(r'\D', '', .) and str.contains are computed, not assumed.        *)
(***************************************************************************)
EXTENDS Integers, Sequences, FiniteSets, Bags, TLC

\* ------------------------------------------------------------------ bounds

\* Most data rows a session's DataFrame may hold before a registration.
MaxRows == 2
\* Most files the Blob Store may hold.
MaxUploads == 2

\* ----------------------------------------------------------- program constants

\* upload_file: uploaded_file.size > 2 * 1024 * 1024
MaxUploadSize == 2 * 1024 * 1024
\* _registration_form: len(phone_digits) != 11
PhoneLen == 11

PENDING == "Pagamento Pendente"
TERMINAL == "Pagamento Em Análise"
ParticipantTypes == {"Membro", "Convidado"}

Sessions == {"s1", "s2"}

\* ------------------------------------------------------------------ strings

Whitespace == {" "}
Digits == {"0", "1", "2", "3", "4", "5", "6", "7", "8", "9"}

\* str.lower() on one character
LowerChar(c) == CASE c = "A" -> "a" [] c = "B" -> "b" [] OTHER -> c
\* str.upper() on one character
UpperChar(c) == CASE c = "a" -> "A" [] c = "b" -> "B" [] OTHER -> c

Lower(s) == [i \in 1..Len(s) |-> LowerChar(s[i])]
Upper(s) == [i \in 1..Len(s) |-> UpperChar(s[i])]

RECURSIVE LStrip(_)
LStrip(s) == IF s # <<>> /\ Head(s) \in Whitespace THEN LStrip(Tail(s)) ELSE s

RECURSIVE RStrip(_)
RStrip(s) ==
    IF s # <<>> /\ s[Len(s)] \in Whitespace
    THEN RStrip(SubSeq(s, 1, Len(s) - 1))
    ELSE s

\* str.strip()
Strip(s) == LStrip(RStrip(s))

IsDigit(c) == c \in Digits
\* re.sub(r'\D', '', s)
StripNonDigits(s) == SelectSeq(s, IsDigit)

\* pat in x  (literal substring)
IsSubstring(pat, x) ==
    \E i \in 0..(Len(x) - Len(pat)) : SubSeq(x, i + 1, i + Len(pat)) = pat

\* Mutant of ContainsNoCase: regex=True, where "." stands for any character.
ContainsNoCase_Regex(x, pat) ==
    \E i \in 0..(Len(x) - Len(pat)) :
        \A k \in 1..Len(pat) :
            pat[k] = "." \/ UpperChar(pat[k]) = UpperChar(x[i + k])

\* Series.str.contains(pat, case=False, regex=False): pat.upper() in x.upper()
ContainsNoCase(x, pat) == IsSubstring(Upper(pat), Upper(x))

Nines(k) == [i \in 1..k |-> "9"]

\* ------------------------------------------------------------------- inputs

\* What a user may type in the "Nome Completo" field.
NameInputs ==
    { <<>>, <<" ">>, <<"A">>, <<"A", " ">>, <<"B">> }

\* What a user may type in the "Celular" field.
PhoneInputs ==
    { <<>>, <<" ">>,
      Nines(PhoneLen - 1), Nines(PhoneLen), Nines(PhoneLen + 1),
      <<"(", "9", "9", ")", " ">> \o Nines(5) \o <<"-">> \o Nines(4) }

\* Well-formed input: two different full names, a phone as the placeholder
\* shows it and one a digit short, the names searched in lower case, the
\* default participant type, a proof of the largest size accepted.
WellFormedNames == { <<"A">>, <<"B">> }
WellFormedPhones ==
    { Nines(PhoneLen - 1),
      <<"(", "9", "9", ")", " ">> \o Nines(5) \o <<"-">> \o Nines(4) }
WellFormedSearches == { <<"a">>, <<"b">> }
WellFormedTypes == { "Membro" }
WellFormedSizes == { MaxUploadSize }

\* What a user may type in the search box.
SearchInputs ==
    { <<>>, <<" ">>, <<"a">>, <<"A", " ">>, <<"b">>, <<"a", "b">>, <<".">> }

\* Sizes, in bytes, of the proofs a user may submit.
FileSizes == { MaxUploadSize, MaxUploadSize + 1, 3 * 1024 * 1024 }
NoFile == -1

\* ---------------------------------------------------------------- the state

VARIABLES
    store,       \* Record Store: the data rows of the sheet, in order
    cache,       \* st.cache_data entry of load_data (shared by all sessions)
    blobs,       \* Blob Store: how many files were created for each name
    pc,          \* per session: where its current script run stands
    df,          \* per session: self.df of the current script run
    sel,         \* per session: the name chosen in the selectbox
    file,        \* per session: size of the file submitted in this run
    report,      \* per session: feedback messages shown so far by the run
    calls,       \* per session: the failed read of the run, if any, and the
                 \* file and store writes it attempted so far, with outcomes
    last         \* the script run that the latest step ended, as its user saw
                 \* it (NoRun when the latest step ended no run)

vars == <<store, cache, blobs, pc, df, sel, file, report, calls, last>>

Row(n, p, t, st) == [Nome |-> n, Celular |-> p, Tipo |-> t, Status |-> st]

\* pd.DataFrame(columns=["Nome", "Celular", "Tipo", "Status"])
EmptyFrame == <<>>

NoCache == [valid |-> FALSE, df |-> EmptyFrame, err |-> FALSE]

NoRun == [report |-> <<>>, calls |-> <<>>,
          sel |-> <<>>, file |-> NoFile]

Init ==
    /\ store = <<>>
    /\ cache = NoCache
    /\ blobs = EmptyBag
    /\ pc = [s \in Sessions |-> "idle"]
    /\ df = [s \in Sessions |-> EmptyFrame]
    /\ sel = [s \in Sessions |-> <<>>]
    /\ file = [s \in Sessions |-> NoFile]
    /\ report = [s \in Sessions |-> <<>>]
    /\ calls = [s \in Sessions |-> <<>>]
    /\ last = NoRun

\* ------------------------------------------------------------- DataManager

\* load_data, lines 98-99: the data rows, with Celular stripped of non-digits
LoadParse(values) ==
    [i \in 1..Len(values) |->
        [values[i] EXCEPT !.Celular = StripNonDigits(@)]]

\* Mutant of SheetUpdate: a row-wise merge, in which a row that is terminal in
\* the sheet is not overwritten by the frame's row of the same name.
SheetUpdate_KeepTerminal(sheet, frame) ==
    [i \in 1..Len(frame) |->
        IF /\ i <= Len(sheet)
           /\ sheet[i].Nome = frame[i].Nome
           /\ sheet[i].Status = TERMINAL
        THEN sheet[i]
        ELSE frame[i]]
    \o SubSeq(sheet, Len(frame) + 1, Len(sheet))

\* values().update(range="A1", body={'values': values}): the rows of the frame
\* are written from the top of the sheet; rows of the sheet below the ones
\* written are not touched by the call.
SheetUpdate(sheet, frame) ==
    frame \o SubSeq(sheet, Len(frame) + 1, Len(sheet))

\* Mutant of CacheAfterSave: the memoized read is left in place.
CacheAfterSave_Kept(c) == c

\* save_data, line 115: st.cache_data.clear()
CacheAfterSave(c) == NoCache

\* main(): a user interaction starts a script run of session s, which builds
\* a new AttendanceSystem; frame is what load_data returns to it.
StartRun(s, frame, shown, called) ==
    /\ pc[s] = "idle"
    /\ df' = [df EXCEPT ![s] = frame]
    /\ report' = [report EXCEPT ![s] = shown]
    /\ calls' = [calls EXCEPT ![s] = called]
    /\ pc' = [pc EXCEPT ![s] = "loaded"]
    /\ last' = NoRun
    /\ UNCHANGED <<store, blobs, sel, file>>

\* AttendanceSystem.__init__ -> load_data, served from the memoized value
\* (the st.error of a memoized failed read is replayed with it).
LoadCached(s) ==
    /\ cache.valid
    /\ StartRun(s, cache.df, IF cache.err THEN <<"load_error">> ELSE <<>>, <<>>)
    /\ UNCHANGED cache

\* AttendanceSystem.__init__ -> load_data, cache miss, the read succeeds.
LoadRead(s) ==
    /\ ~cache.valid
    /\ StartRun(s, LoadParse(store), <<>>, <<>>)
    /\ cache' = [valid |-> TRUE, df |-> LoadParse(store), err |-> FALSE]

\* AttendanceSystem.__init__ -> load_data, cache miss, the read throws: the
\* except branch returns the empty frame, and that return value is memoized.
LoadFail(s) ==
    /\ ~cache.valid
    /\ StartRun(s, EmptyFrame, <<"load_error">>, <<"read_fail">>)
    /\ cache' = [valid |-> TRUE, df |-> EmptyFrame, err |-> TRUE]

\* @st.cache_data(ttl=300): the memoized value expires.
ExpireCache ==
    /\ cache.valid
    /\ cache' = NoCache
    /\ last' = NoRun
    /\ UNCHANGED <<store, blobs, pc, df, sel, file, report, calls>>

\* The script run of session s ends, having shown the messages `shown`, made
\* the store calls `called`, for the selected name and the submitted file; the
\* AttendanceSystem object, and self.df with it, is dropped.
EndRun(s, shown, called, selected, f) ==
    /\ last' = [report |-> shown, calls |-> called,
                sel |-> selected, file |-> f]
    /\ pc' = [pc EXCEPT ![s] = "idle"]
    /\ df' = [df EXCEPT ![s] = EmptyFrame]
    /\ sel' = [sel EXCEPT ![s] = <<>>]
    /\ file' = [file EXCEPT ![s] = NoFile]
    /\ report' = [report EXCEPT ![s] = <<>>]
    /\ calls' = [calls EXCEPT ![s] = <<>>]

\* save_data, lines 107-116: the update succeeds, the cache is cleared, and
\* the caller reports success and reruns the script.
SaveDataOk(s) ==
    /\ pc[s] \in {"saving_reg", "saving_conf"}
    /\ store' = SheetUpdate(store, df[s])
    /\ cache' = CacheAfterSave(cache)
    /\ EndRun(s, Append(report[s], IF pc[s] = "saving_reg" THEN "reg_ok" ELSE "conf_ok"),
              Append(calls[s], "write_ok"), sel[s], file[s])
    /\ UNCHANGED blobs

\* Mutant of SaveDataFail: the except branch returns True, so the caller
\* reports success.
SaveDataFail_ReturnsTrue(s) ==
    /\ pc[s] \in {"saving_reg", "saving_conf"}
    /\ EndRun(s, Append(report[s], IF pc[s] = "saving_reg" THEN "reg_ok" ELSE "conf_ok"),
              Append(calls[s], "write_fail"), sel[s], file[s])
    /\ UNCHANGED <<store, cache, blobs>>

\* Mutant of SaveDataFail: the update that threw is reported and tried again.
SaveDataFail_Retries(s) ==
    /\ pc[s] \in {"saving_reg", "saving_conf"}
    /\ report' = [report EXCEPT ![s] = Append(@, "save_error")]
    /\ calls' = [calls EXCEPT ![s] = Append(@, "write_fail")]
    /\ last' = NoRun
    /\ UNCHANGED <<store, cache, blobs, pc, df, sel, file>>

\* save_data, lines 117-119: the update throws; st.error, return False.
SaveDataFail(s) ==
    /\ pc[s] \in {"saving_reg", "saving_conf"}
    /\ EndRun(s, Append(report[s], "save_error"), Append(calls[s], "write_fail"),
              sel[s], file[s])
    /\ UNCHANGED <<store, cache, blobs>>

\* ---------------------------------------------------------- registration

\* _registration_form, line 201: all([name, phone_digits])
RequiredFilled(name, phone_digits) == name # <<>> /\ phone_digits # <<>>

\* Mutant of PhoneValid: the length of the phone is not checked.
PhoneValid_Unchecked(phone_digits) == TRUE

\* _registration_form, line 204: len(phone_digits) == 11
PhoneValid(phone_digits) == Len(phone_digits) = PhoneLen

\* _registration_form, line 207: name.lower() in self.df["Nome"].str.lower().values
NameTaken(frame, name) ==
    \E i \in 1..Len(frame) : Lower(frame[i].Nome) = Lower(name)

\* _registration_form, lines 211-216: the new row
NewEntry(name, phone_digits, ptype) ==
    Row(Strip(name), phone_digits, ptype, PENDING)

\* _registration_form, lines 199-218, up to the call of save_data.
RegistrationForm(s, name, phone, ptype) ==
    LET phone_digits == StripNonDigits(phone) IN
    /\ pc[s] = "loaded"
    /\ IF ~RequiredFilled(name, phone_digits)
       THEN EndRun(s, Append(report[s], "required"), calls[s], <<>>, NoFile)
       ELSE IF ~PhoneValid(phone_digits)
       THEN EndRun(s, Append(report[s], "bad_phone"), calls[s], <<>>, NoFile)
       ELSE IF NameTaken(df[s], name)
       THEN EndRun(s, Append(report[s], "duplicate"), calls[s], <<>>, NoFile)
       ELSE /\ Len(df[s]) < MaxRows
            /\ df' = [df EXCEPT ![s] = Append(@, NewEntry(name, phone_digits, ptype))]
            /\ pc' = [pc EXCEPT ![s] = "saving_reg"]
            /\ last' = NoRun
            /\ UNCHANGED <<report, calls, sel, file>>
    /\ UNCHANGED <<store, cache, blobs>>

\* ---------------------------------------------------------- confirmation

\* _attendance_confirmation, line 234: the matching rows, in stored order
SearchResults(frame, search_term) ==
    LET Match(r) == ContainsNoCase(r.Nome, search_term) IN
    SelectSeq(frame, Match)

\* _attendance_confirmation, line 237: status of the first row named selected
CurrentStatus(frame, selected) ==
    LET i == CHOOSE j \in 1..Len(frame) :
                 /\ frame[j].Nome = selected
                 /\ \A k \in 1..(j - 1) : frame[k].Nome # selected
    IN frame[i].Status

\* Mutant of GuardPasses: the status is not looked at.
GuardPasses_Always(frame, selected) == TRUE

\* _attendance_confirmation, line 238: the guard lets the attempt through
GuardPasses(frame, selected) == CurrentStatus(frame, selected) = PENDING

\* Mutant of FileTooLarge: >= for >.
FileTooLarge_Inclusive(size) == size >= MaxUploadSize

\* upload_file, line 131: uploaded_file.size > 2 * 1024 * 1024
FileTooLarge(size) == size > MaxUploadSize

\* _attendance_confirmation, line 256: every row named selected gets the
\* terminal status
MarkTerminal(frame, selected) ==
    [i \in 1..Len(frame) |->
        IF frame[i].Nome = selected
        THEN [frame[i] EXCEPT !.Status = TERMINAL]
        ELSE frame[i]]

\* _attendance_confirmation, lines 228-254 and 262-265, and upload_file,
\* lines 131-133: up to the first write of upload_file.
AttendanceConfirmation(s, typed, submit, f) ==
    LET search_term == Strip(typed)
        results == SearchResults(df[s], search_term)
    IN
    /\ pc[s] = "loaded"
    /\ IF search_term = <<>>
       THEN EndRun(s, report[s], calls[s], <<>>, NoFile)
       ELSE IF results = <<>>
       THEN EndRun(s, Append(report[s], "not_found"), calls[s], <<>>, NoFile)
       ELSE \E k \in 1..Len(results) :
            LET selected == results[k].Nome IN
            IF ~GuardPasses(df[s], selected)
            THEN EndRun(s, Append(report[s], "already"), calls[s], selected, NoFile)
            ELSE IF ~submit
            THEN EndRun(s, report[s], calls[s], selected, NoFile)
            ELSE IF f = NoFile
            THEN EndRun(s, Append(report[s], "no_file"), calls[s], selected, NoFile)
            ELSE IF FileTooLarge(f)
            THEN EndRun(s, Append(report[s], "too_large"), calls[s], selected, f)
            ELSE /\ BagCardinality(blobs) < MaxUploads
                 /\ sel' = [sel EXCEPT ![s] = selected]
                 /\ file' = [file EXCEPT ![s] = f]
                 /\ pc' = [pc EXCEPT ![s] = "uploading"]
                 /\ last' = NoRun
                 /\ UNCHANGED <<report, calls, df>>
    /\ UNCHANGED <<store, cache, blobs>>

\* upload_file, lines 139-140 throw: except branch, st.error, return None.
UploadLocalFail(s) ==
    /\ pc[s] = "uploading"
    /\ EndRun(s, Append(report[s], "upload_error"), Append(calls[s], "local_fail"),
              sel[s], file[s])
    /\ UNCHANGED <<store, cache, blobs>>

\* Mutant of UploadBlobFail: the result of upload_file is not tested, so the
\* status is marked and saved although files().create threw.
UploadBlobFail_Proceeds(s) ==
    /\ pc[s] = "uploading"
    /\ calls' = [calls EXCEPT ![s] = @ \o <<"local_ok", "blob_fail">>]
    /\ report' = [report EXCEPT ![s] = Append(@, "upload_error")]
    /\ df' = [df EXCEPT ![s] = MarkTerminal(@, sel[s])]
    /\ pc' = [pc EXCEPT ![s] = "saving_conf"]
    /\ last' = NoRun
    /\ UNCHANGED <<store, cache, blobs, sel, file>>

\* upload_file, lines 139-150: the local file is written, files().create
\* throws; except branch, st.error, return None.
UploadBlobFail(s) ==
    /\ pc[s] = "uploading"
    /\ EndRun(s, Append(report[s], "upload_error"),
              calls[s] \o <<"local_ok", "blob_fail">>, sel[s], file[s])
    /\ UNCHANGED <<store, cache, blobs>>

\* upload_file, lines 139-151, returns the filename; then line 256 marks the
\* selected rows, up to the call of save_data.
UploadOk(s) ==
    /\ pc[s] = "uploading"
    /\ blobs' = blobs (+) SetToBag({sel[s]})
    /\ calls' = [calls EXCEPT ![s] = @ \o <<"local_ok", "blob_ok">>]
    /\ df' = [df EXCEPT ![s] = MarkTerminal(@, sel[s])]
    /\ pc' = [pc EXCEPT ![s] = "saving_conf"]
    /\ last' = NoRun
    /\ UNCHANGED <<store, cache, sel, file, report>>

\* ------------------------------------------------------------ the system

\* One step of the script run of session s, its user typing a name of names,
\* a phone of phones, choosing a type of types, searching for one of
\* searches and submitting a file of one of the sizes (or none).
Step(s, names, phones, types, searches, sizes) ==
    \/ LoadCached(s)
    \/ LoadRead(s)
    \/ LoadFail(s)
    \/ \E name \in names, phone \in phones, ptype \in types :
           RegistrationForm(s, name, phone, ptype)
    \/ \E typed \in searches, submit \in BOOLEAN, f \in sizes \cup {NoFile} :
           AttendanceConfirmation(s, typed, submit, f)
    \/ UploadLocalFail(s)
    \/ UploadBlobFail(s)
    \/ UploadOk(s)
    \/ SaveDataOk(s)
    \/ SaveDataFail(s)

\* One session alone, its user typing anything.
NextSingle ==
    \/ Step("s1", NameInputs, PhoneInputs, ParticipantTypes, SearchInputs, FileSizes)
    \/ ExpireCache

SpecSingle == Init /\ [][NextSingle]_vars

\* Several sessions, interleaved at the store calls, their users typing
\* well-formed input.
Next ==
    \/ \E s \in Sessions :
           Step(s, WellFormedNames, WellFormedPhones, WellFormedTypes,
                WellFormedSearches, WellFormedSizes)
    \/ ExpireCache

Spec == Init /\ [][Next]_vars

\* One step of the script run of session s in an execution in which no store
\* call fails: every read, upload and write takes its try branch.
StepNoFailure(s, names, phones, types, searches, sizes) ==
    \/ LoadCached(s)
    \/ LoadRead(s)
    \/ \E name \in names, phone \in phones, ptype \in types :
           RegistrationForm(s, name, phone, ptype)
    \/ \E typed \in searches, submit \in BOOLEAN, f \in sizes \cup {NoFile} :
           AttendanceConfirmation(s, typed, submit, f)
    \/ UploadOk(s)
    \/ SaveDataOk(s)

\* One session alone, its user typing anything, no store call failing.
NextSingleNoFailure ==
    \/ StepNoFailure("s1", NameInputs, PhoneInputs, ParticipantTypes,
                     SearchInputs, FileSizes)
    \/ ExpireCache

SpecSingleNoFailure == Init /\ [][NextSingleNoFailure]_vars

\* Several sessions, interleaved at the store calls, well-formed input, no
\* store call failing.
NextNoFailure ==
    \/ \E s \in Sessions :
           StepNoFailure(s, WellFormedNames, WellFormedPhones, WellFormedTypes,
                         WellFormedSearches, WellFormedSizes)
    \/ ExpireCache

SpecNoFailure == Init /\ [][NextNoFailure]_vars

\* One session alone, no store call failing, its user registering any name
\* (with a well-formed phone and type) and searching for anything.
NextSearch ==
    \/ StepNoFailure("s1", NameInputs, WellFormedPhones, WellFormedTypes,
                     SearchInputs, WellFormedSizes)
    \/ ExpireCache

SpecSearch == Init /\ [][NextSearch]_vars

\* ------------------------------------------------------------ properties

InSeq(x, seq) == \E i \in 1..Len(seq) : seq[i] = x

EndsWith(seq, x) == seq # <<>> /\ seq[Len(seq)] = x

HasName(frame, n) == \E i \in 1..Len(frame) : frame[i].Nome = n

\* The run that just ended issued a Record Store write.
LastWrote == InSeq("write_ok", last.calls) \/ InSeq("write_fail", last.calls)

\* The run that just ended wrote a file, locally or to the Blob Store.
LastUploaded ==
    \/ InSeq("local_ok", last.calls) \/ InSeq("local_fail", last.calls)
    \/ InSeq("blob_ok", last.calls) \/ InSeq("blob_fail", last.calls)

\* The upload of the run that just ended failed.
LastUploadFailed ==
    InSeq("local_fail", last.calls) \/ InSeq("blob_fail", last.calls)

\* C1. Write-ahead ordering: a confirmation sets the status and rewrites the
\* Record Store only after its Blob Store write succeeded.  Until the blob
\* is written the selected participant is still PENDING in the session's
\* collection; the save of a confirmation is reached only with the blob
\* written in the same run; a terminal status in the Record Store is backed
\* by a stored blob; and a run whose upload failed reported the upload
\* error, issued no Record Store write and left the participant PENDING.
C1_WriteAhead ==
    /\ \A s \in Sessions :
          /\ pc[s] = "uploading" =>
                /\ CurrentStatus(df[s], sel[s]) = PENDING
                /\ ~InSeq("blob_ok", calls[s])
          /\ pc[s] = "saving_conf" =>
                /\ EndsWith(calls[s], "blob_ok")
                /\ CurrentStatus(df[s], sel[s]) = TERMINAL
    /\ \A i \in 1..Len(store) :
          store[i].Status = TERMINAL => CopiesIn(store[i].Nome, blobs) >= 1
    /\ LastUploadFailed =>
          /\ EndsWith(last.report, "upload_error")
          /\ ~LastWrote
          /\ ~InSeq("blob_ok", last.calls)
          /\ HasName(store, last.sel)
          /\ CurrentStatus(store, last.sel) = PENDING

\* C1 witness: a confirmation has written its blob and then the Record
\* Store, where the participant now is terminal.
C1_Witness ==
    /\ last.calls = <<"local_ok", "blob_ok", "write_ok">>
    /\ HasName(store, last.sel)
    /\ CurrentStatus(store, last.sel) = TERMINAL

\* C3. Guard: a confirmation attempt for a participant whose status (in the
\* collection of the run) is not PENDING ends the run with "already
\* submitted", starts no upload and issues no Record Store write.
C3_Guard ==
    [][\A s \in Sessions :
          /\ (pc[s] = "loaded" /\ pc'[s] = "uploading") =>
                CurrentStatus(df[s], sel'[s]) = PENDING
          /\ (/\ pc[s] = "loaded" /\ pc'[s] = "idle"
              /\ HasName(df[s], last'.sel)
              /\ CurrentStatus(df[s], last'.sel) # PENDING) =>
                /\ EndsWith(last'.report, "already")
                /\ ~InSeq("write_ok", last'.calls)
                /\ ~InSeq("write_fail", last'.calls)
                /\ ~InSeq("local_ok", last'.calls)
                /\ ~InSeq("blob_ok", last'.calls)
                /\ blobs' = blobs
                /\ store' = store]_vars

\* C3 witness: an attempt for a participant that is terminal in the Record
\* Store was answered with "already submitted".
C3_Witness ==
    /\ EndsWith(last.report, "already")
    /\ HasName(store, last.sel)
    /\ CurrentStatus(store, last.sel) = TERMINAL

\* C4. Orphan window: a confirmation whose blob write succeeded and whose
\* Record Store write failed reports the save error and no success, its blob
\* stays stored, and the participant stays PENDING in the Record Store and
\* in the memoized read, so the guard of a later attempt passes.
C4_OrphanWindow ==
    (InSeq("blob_ok", last.calls) /\ InSeq("write_fail", last.calls)) =>
        /\ EndsWith(last.report, "save_error")
        /\ ~InSeq("conf_ok", last.report)
        /\ CopiesIn(last.sel, blobs) >= 1
        /\ HasName(store, last.sel)
        /\ CurrentStatus(LoadParse(store), last.sel) = PENDING
        /\ (cache.valid /\ ~cache.err) =>
              /\ HasName(cache.df, last.sel)
              /\ CurrentStatus(cache.df, last.sel) = PENDING

\* C4 witness: the Record Store write failed after the blob write succeeded.
C4_Witness ==
    /\ last.calls = <<"local_ok", "blob_ok", "write_fail">>
    /\ CopiesIn(last.sel, blobs) >= 1

\* C5. Size check: a proof of more than 2,097,152 bytes is refused with the
\* file-too-large error before any write (no local file, no blob, no Record
\* Store write) and the participant stays PENDING; only such a proof is
\* refused as too large, so one of exactly 2,097,152 bytes goes on to the
\* upload.
C5_SizeCheck ==
    /\ last.file > MaxUploadSize =>
          /\ EndsWith(last.report, "too_large")
          /\ ~LastUploaded
          /\ ~LastWrote
          /\ HasName(store, last.sel)
          /\ CurrentStatus(store, last.sel) = PENDING
    /\ InSeq("too_large", last.report) => last.file > MaxUploadSize
    /\ \A s \in Sessions :
          pc[s] \in {"uploading", "saving_conf"} =>
              (file[s] # NoFile /\ file[s] <= MaxUploadSize)
    /\ LastUploaded => (last.file # NoFile /\ last.file <= MaxUploadSize)

\* C5 witness: a proof of 3 MiB was refused, after one of exactly
\* 2,097,152 bytes had been uploaded.
C5_Witness ==
    /\ last.file = 3 * 1024 * 1024
    /\ EndsWith(last.report, "too_large")
    /\ BagCardinality(blobs) >= 1

\* Name as compared for uniqueness: case-insensitive, whitespace-trimmed.
Normalized(n) == Lower(Strip(n))

\* The participant of a row, whatever its status.
SameParticipant(r, q) ==
    r.Nome = q.Nome /\ r.Celular = q.Celular /\ r.Tipo = q.Tipo

\* C2. Status only moves forward: a participant that is terminal in the
\* Record Store is not PENDING in the Record Store after any step of any
\* session.
C2_StatusForward ==
    [][\A i \in 1..Len(store) :
          store[i].Status = TERMINAL =>
              \A j \in 1..Len(store') :
                  store'[j].Nome = store[i].Nome => store'[j].Status # PENDING]_vars

\* C6. Name uniqueness: no two rows of the Record Store have the same
\* normalized name.
C6_UniqueNames ==
    \A i, j \in 1..Len(store) :
        Normalized(store[i].Nome) = Normalized(store[j].Nome) => i = j

\* C7. No participant with an empty name is persisted.
C7_NoEmptyName ==
    \A i \in 1..Len(store) : store[i].Nome # <<>>

\* C8. Phone invariant: every row that registration hands to save_data, and
\* so every row of the Record Store, has a phone of exactly 11 characters,
\* all digits; a registration that reported success wrote such rows only.
C8_PhoneDigits ==
    LET Good(r) == Len(r.Celular) = PhoneLen
                   /\ \A k \in 1..Len(r.Celular) : IsDigit(r.Celular[k])
    IN
    /\ \A s \in Sessions :
          pc[s] = "saving_reg" => \A i \in 1..Len(df[s]) : Good(df[s][i])
    /\ \A i \in 1..Len(store) : Good(store[i])

\* C8 witness: a registration was refused for its phone while the Record
\* Store holds a registered participant.
C8_Witness ==
    /\ EndsWith(last.report, "bad_phone")
    /\ Len(store) >= 1

\* C9. No deletion path: every participant in the Record Store before a
\* step is in the Record Store after it.
C9_NoDeletion ==
    [][\A i \in 1..Len(store) :
          \E j \in 1..Len(store') : SameParticipant(store[i], store'[j])]_vars

C11_LostUpdate ==
    [][\A s \in Sessions :
          (pc[s] = "saving_conf" /\ pc'[s] = "idle") =>
              /\ EndsWith(last'.report, "conf_ok")
              /\ last'.sel = sel[s]
              /\ Len(store') >= Len(df[s])
              /\ \A i \in 1..Len(df[s]) : store'[i] = df[s][i]
              /\ \A i \in 1..Len(df[s]) :
                    (/\ df[s][i].Nome # sel[s]
                     /\ df[s][i].Status = PENDING
                     /\ i <= Len(store)
                     /\ store[i].Nome = df[s][i].Nome
                     /\ store[i].Status = TERMINAL)
                        => /\ store'[i].Status = PENDING
                           /\ CopiesIn(store'[i].Nome, blobs') >= 1]_vars

\* C11 witness: with no store call failing and every run ended, the latest
\* run reported the confirmation of one participant, the blobs of two
\* different participants are stored, and the other participant is PENDING
\* in the Record Store.
C11_Witness ==
    /\ \A s \in Sessions : pc[s] = "idle"
    /\ EndsWith(last.report, "conf_ok")
    /\ \E i, j \in 1..Len(store) :
          /\ store[i].Nome = last.sel
          /\ store[i].Status = TERMINAL
          /\ store[j].Nome # last.sel
          /\ store[j].Status = PENDING
          /\ CopiesIn(store[i].Nome, blobs) = 1
          /\ CopiesIn(store[j].Nome, blobs) = 1

\* C12. Idempotent confirmation, one session, no store call failing: once a
\* participant is terminal in the Record Store exactly one blob is stored
\* for them, and from then on no step stores another blob for them or
\* changes their status; a further confirmation attempt for them ends with
\* "already submitted", having made no upload and no Record Store write.
\* No participant ever has more than one blob, and the only change of a
\* stored status is one from PENDING to terminal, made by a confirmation
\* that reported success.
C12_Idempotent ==
    [][/\ \A n \in BagToSet(blobs') : CopiesIn(n, blobs') = 1
       /\ \A i \in 1..Len(store) :
             /\ store[i].Status = TERMINAL =>
                   /\ store'[i] = store[i]
                   /\ CopiesIn(store[i].Nome, blobs) = 1
                   /\ CopiesIn(store[i].Nome, blobs') = 1
             /\ store'[i].Status # store[i].Status =>
                   /\ store[i].Status = PENDING
                   /\ store'[i].Status = TERMINAL
                   /\ store'[i].Nome = last'.sel
                   /\ last'.calls = <<"local_ok", "blob_ok", "write_ok">>
                   /\ EndsWith(last'.report, "conf_ok")
       /\ \A s \in Sessions :
             /\ (/\ pc[s] = "loaded" /\ pc'[s] = "idle"
                 /\ HasName(store, last'.sel)
                 /\ CurrentStatus(store, last'.sel) = TERMINAL) =>
                   /\ last'.report = <<"already">>
                   /\ last'.calls = <<>>
                   /\ store' = store
                   /\ blobs' = blobs
             /\ (/\ pc'[s] \in {"uploading", "saving_conf"}
                 /\ HasName(store, sel'[s])) =>
                   CurrentStatus(store, sel'[s]) = PENDING]_vars

\* C12 witness: after the successful confirmation of a participant, a
\* further attempt for them was answered "already submitted" without any
\* upload or write, and one blob is stored for them.
C12_Witness ==
    /\ last.report = <<"already">>
    /\ last.calls = <<>>
    /\ HasName(store, last.sel)
    /\ CurrentStatus(store, last.sel) = TERMINAL
    /\ CopiesIn(last.sel, blobs) = 1

\* C13. Frame of a registration: the registration that goes on to save_data
\* has appended to the collection of its run exactly one row, PENDING, with
\* the typed name trimmed, the typed phone reduced to its digits and the
\* chosen type, the other rows of the collection as they were; and when it
\* reports success the Record Store holds every row it held before,
\* unchanged and in place, followed by that one new row.
C13_RegistrationFrame ==
    [][\A s \in Sessions :
          /\ (pc[s] = "loaded" /\ pc'[s] = "saving_reg") =>
                /\ Len(df'[s]) = Len(df[s]) + 1
                /\ SubSeq(df'[s], 1, Len(df[s])) = df[s]
                /\ \E name \in NameInputs, phone \in PhoneInputs,
                      ptype \in ParticipantTypes :
                      df'[s][Len(df'[s])] =
                          Row(Strip(name), StripNonDigits(phone), ptype, PENDING)
          /\ (pc[s] = "saving_reg" /\ EndsWith(last'.report, "reg_ok")) =>
                /\ Len(store') = Len(store) + 1
                /\ SubSeq(store', 1, Len(store)) = store
                /\ store'[Len(store')] = df[s][Len(df[s])]
                /\ store'[Len(store')].Status = PENDING]_vars

\* The same letter, whatever the case.
SameLetter(c, d) == LowerChar(c) = LowerChar(d)

\* The text q, read literally, occurs in name, case ignored.
NameContains(name, q) ==
    \E i \in 1..(Len(name) - Len(q) + 1) :
        \A k \in 1..Len(q) : SameLetter(name[i + k - 1], q[k])

\* The rows of frame whose name contains q, in the order of frame.
RECURSIVE MatchingRows(_, _)
MatchingRows(frame, q) ==
    IF frame = <<>>
    THEN <<>>
    ELSE (IF NameContains(Head(frame).Nome, q) THEN <<Head(frame)>> ELSE <<>>)
         \o MatchingRows(Tail(frame), q)

Count(x, seq) == Cardinality({i \in 1..Len(seq) : seq[i] = x})

\* A run that made the store calls `called` and showed the messages `shown`
\* tried the Record Store read, the Record Store write and the Blob Store
\* write at most once each, showed each failure once, and made no store
\* call after a failed write or upload.
NoRetry(called, shown) ==
    /\ Count("read_fail", called) <= 1
    /\ Count("write_ok", called) + Count("write_fail", called) <= 1
    /\ Count("blob_ok", called) + Count("blob_fail", called) <= 1
    /\ Count("local_ok", called) + Count("local_fail", called) <= 1
    /\ Count("load_error", shown) <= 1
    /\ Count("read_fail", called) = 1 => Count("load_error", shown) = 1
    /\ Count("save_error", shown) = Count("write_fail", called)
    /\ Count("upload_error", shown) =
          Count("blob_fail", called) + Count("local_fail", called)
    /\ \A i \in 1..Len(called) :
          called[i] \in {"write_fail", "blob_fail", "local_fail"} => i = Len(called)

\* C15. No retries.  The load of a run tries the Record Store read at most
\* once and, when the read fails, shows the load error once and returns.
\* The registration or confirmation that follows tries the Blob Store write
\* and the Record Store write at most once each; when one of them fails the
\* failure is shown once and the run ends there, no store call after it: no
\* run still under way has a failed write or upload behind it.
C15_NoRetry ==
    /\ NoRetry(last.calls, last.report)
    /\ \A s \in Sessions :
          /\ NoRetry(calls[s], report[s])
          /\ pc[s] # "idle" =>
                /\ ~InSeq("write_fail", calls[s])
                /\ ~InSeq("blob_fail", calls[s])
                /\ ~InSeq("local_fail", calls[s])
                /\ ~InSeq("write_ok", calls[s])
          /\ pc[s] = "loaded" => calls[s] \in {<<>>, <<"read_fail">>}

\* C15 witness: a confirmation whose Blob Store write succeeded and whose
\* Record Store write failed ended with the one save error, after an
\* earlier attempt for the same participant had left a blob behind.
C15_Witness ==
    /\ last.calls = <<"local_ok", "blob_ok", "write_fail">>
    /\ last.report = <<"save_error">>
    /\ CopiesIn(last.sel, blobs) = 2

\* C16. A registration whose Record Store write fails is safe and
\* retryable: the failed write leaves the Record Store and the memoized read
\* as they were and the run shows the save error and no success; and the
\* same name, typed again in the next interaction, is not found taken in the
\* collection that interaction loads, be it the memoized one or, the cache
\* having expired, the one read from the Record Store.
C16_RetryableRegistration ==
    [][\A s \in Sessions :
          (/\ pc[s] = "saving_reg" /\ pc'[s] = "idle"
           /\ EndsWith(last'.calls, "write_fail")) =>
              LET entry == df[s][Len(df[s])]
                  loaded == SubSeq(df[s], 1, Len(df[s]) - 1)
              IN
              /\ store' = store
              /\ cache' = cache
              /\ ~InSeq("reg_ok", last'.report)
              /\ EndsWith(last'.report, "save_error")
              /\ \A name \in NameInputs :
                    (Strip(name) = entry.Nome /\ ~NameTaken(loaded, name)) =>
                        IF cache'.valid
                        THEN ~NameTaken(cache'.df, name)
                        ELSE ~NameTaken(LoadParse(store'), name)]_vars

\* C17. Frame of a confirmation: after its upload the confirmation changes,
\* in the collection loaded for the attempt, exactly one row, a row of the
\* selected name, and of that row only the status, from PENDING to terminal;
\* and the table a successful confirmation writes to the Record Store is
\* that collection, row by row.
C17_ConfirmationFrame ==
    [][\A s \in Sessions :
          /\ (pc[s] = "uploading" /\ pc'[s] = "saving_conf") =>
                /\ Len(df'[s]) = Len(df[s])
                /\ Cardinality({i \in 1..Len(df[s]) : df'[s][i] # df[s][i]}) = 1
                /\ \A i \in 1..Len(df[s]) :
                      df'[s][i] # df[s][i] =>
                          /\ df[s][i].Nome = sel[s]
                          /\ df[s][i].Status = PENDING
                          /\ df'[s][i] = [df[s][i] EXCEPT !.Status = TERMINAL]
          /\ (pc[s] = "saving_conf" /\ EndsWith(last'.report, "conf_ok")) =>
                /\ Len(store') >= Len(df[s])
                /\ SubSeq(store', 1, Len(df[s])) = df[s]]_vars

\* C18. At most one proof per participant, no store call failing, several
\* sessions: the Blob Store never holds more than one blob of a participant,
\* and a blob is written for a participant only while that participant is
\* PENDING in the Record Store.
C18_OneBlobPerParticipant ==
    [][/\ \A n \in BagToSet(blobs') : CopiesIn(n, blobs') <= 1
       /\ \A s \in Sessions :
             (pc[s] = "uploading" /\ pc'[s] = "saving_conf") =>
                 /\ HasName(store, sel[s])
                 /\ CurrentStatus(store, sel[s]) = PENDING]_vars

====
